---- MODULE Spec2Model ----
(***************************************************************************)
(* Model of src/main.rs: a Bevy application whose Startup systems spawn a  *)
(* small UI (two buttons) and a 3D scene (camera, plane, cube with a torus *)
(* child, light), whose pickable meshes carry an AppId, and whose          *)
(* SceneStoreResource is meant to hold one extracted sub-tree.             *)
(***************************************************************************)
EXTENDS Naturals, FiniteSets

VARIABLES
    ran,        \* Startup systems that have run (their commands are queued)
    queue,      \* spawn commands queued in Commands, not yet applied
    live,       \* entities of the World (records)
    store,      \* the SceneStoreResource
    hover,      \* entity under the pointer, or "none"
    pressed,    \* entity the pointer went down on, or "none"
    selected,   \* the picked (selected) mesh entity, or "none"
    lastClick,  \* target of the last Pointer<Click>, or "none"
    reported    \* error reported by the handler run for the last click

vars == <<ran, queue, live, store, hover, pressed, selected, lastClick, reported>>

----------------------------------------------------------------------------
(* Data *)

\* Uuid::default() is the nil UUID: the 128-bit value 0.
NilUuid == 0

\* #[derive(Default)] struct AppId(Uuid): AppId::default() = AppId(Uuid::default()).
AppId_default == NilUuid

\* SceneStoreResource::default() is the #[default] variant, Empty.
SceneStoreResource_default == [state |-> "Empty"]

\* The variants the enum declares.
SceneStoreResource_variants == {"Empty", "ReadyToSave", "Stored"}

\* An entity: id, Parent (or "none"), its AppId component (a set: empty when
\* the entity has none), whether it has a PickableBundle, whether it is a
\* ButtonBundle, and the system its On::<Pointer<Click>> runs (or "none").
Ent(id, parent, appid, pickable, button, on_click) ==
    [id |-> id, parent |-> parent, appid |-> appid, pickable |-> pickable,
     button |-> button, on_click |-> on_click]

\* What sys_setup_ui spawns: a node with two buttons, each with a text child.
\* Only the first button gets an On::<Pointer<Click>> listener.
UiEntities ==
    { Ent("ui_root",  "none",     {}, FALSE, FALSE, "none"),
      Ent("btn_to",   "ui_root",  {}, FALSE, TRUE,  "sys_on_to_dynamic_scene"),
      Ent("txt_to",   "btn_to",   {}, FALSE, FALSE, "none"),
      Ent("btn_from", "ui_root",  {}, FALSE, TRUE,  "none"),
      Ent("txt_from", "btn_from", {}, FALSE, FALSE, "none") }

\* What sys_setup_scene spawns: camera, plane, cube with a torus child, light.
\* Plane, cube and torus each get AppId::default() and a PickableBundle.
SceneEntities ==
    { Ent("camera", "none", {},              FALSE, FALSE, "none"),
      Ent("plane",  "none", {AppId_default}, TRUE,  FALSE, "none"),
      Ent("cube",   "none", {AppId_default}, TRUE,  FALSE, "none"),
      Ent("torus",  "cube", {AppId_default}, TRUE,  FALSE, "none"),
      Ent("light",  "none", {},              FALSE, FALSE, "none") }

\* The systems main() adds to the Startup schedule.
StartupSystems == {"sys_setup_ui", "sys_setup_scene"}

----------------------------------------------------------------------------
(* The click handler *)

\* Mutant: the handler registers the pick in the store.
StoreAfterToDynamicScene_ReadyToSave(st, picked) ==
    IF picked = "none" THEN st
    ELSE [state |-> "ReadyToSave", target_appid |-> picked]

\* Mutant: the handler overwrites the store whatever its state and the pick.
StoreAfterToDynamicScene_Overwrite(st, picked) ==
    [state |-> "Stored", parent_appid |-> "none", target_appId |-> picked]

\* sys_on_to_dynamic_scene builds a SystemState over the store and the
\* (Entity, &AppId) query, fetches both, and returns: the store is not written.
StoreAfterToDynamicScene(st, picked) == st

\* sys_on_to_dynamic_scene: the World's entities are not touched either (the
\* DynamicSceneBuilder lines are commented out).
WorldAfterToDynamicScene(w, picked) == w

\* sys_on_to_dynamic_scene returns unit and logs nothing: no error is reported.
ReportAfterToDynamicScene(st, picked) == "None"

----------------------------------------------------------------------------
(* State machine *)

\* App::new() ... insert_resource(SceneStoreResource::default()); nothing has
\* run yet.
Init ==
    /\ ran = {}
    /\ queue = {}
    /\ live = {}
    /\ store = SceneStoreResource_default
    /\ hover = "none"
    /\ pressed = "none"
    /\ selected = "none"
    /\ lastClick = "none"
    /\ reported = "None"

\* The Startup schedule has finished and its commands are applied.
Started == ran = StartupSystems /\ queue = {}

\* Startup system sys_setup_ui: queues its spawns.
sys_setup_ui ==
    /\ "sys_setup_ui" \notin ran
    /\ ran' = ran \cup {"sys_setup_ui"}
    /\ queue' = queue \cup UiEntities
    /\ UNCHANGED <<live, store, hover, pressed, selected, lastClick, reported>>

\* Startup system sys_setup_scene: queues its spawns.
sys_setup_scene ==
    /\ "sys_setup_scene" \notin ran
    /\ ran' = ran \cup {"sys_setup_scene"}
    /\ queue' = queue \cup SceneEntities
    /\ UNCHANGED <<live, store, hover, pressed, selected, lastClick, reported>>

\* End of the Startup schedule: the queued commands are applied to the World.
ApplyDeferred ==
    /\ ran = StartupSystems
    /\ queue # {}
    /\ live' = live \cup queue
    /\ queue' = {}
    /\ UNCHANGED <<ran, store, hover, pressed, selected, lastClick, reported>>

\* Entities the pointer can hit: the pickable meshes and the buttons.
Hittable == {e \in live : e.pickable \/ e.button}

\* The pointer moves over an entity, or off everything.
PointerMove(t) ==
    /\ Started
    /\ t \in {e.id : e \in Hittable} \cup {"none"}
    /\ t # hover
    /\ hover' = t
    /\ UNCHANGED <<ran, queue, live, store, pressed, selected, lastClick, reported>>

\* The pointer button goes down on the hovered entity.
PointerDown ==
    /\ Started
    /\ pressed = "none"
    /\ hover # "none"
    /\ pressed' = hover
    /\ UNCHANGED <<ran, queue, live, store, hover, selected, lastClick, reported>>

\* The pointer button goes up away from where it went down: no Click.
PointerUpElsewhere ==
    /\ Started
    /\ pressed # "none"
    /\ hover # pressed
    /\ pressed' = "none"
    /\ UNCHANGED <<ran, queue, live, store, hover, selected, lastClick, reported>>

\* Pointer<Click> on a pickable mesh: it becomes the picked entity.
ClickMesh(e) ==
    /\ Started
    /\ e \in live /\ e.pickable
    /\ pressed = e.id /\ hover = e.id
    /\ pressed' = "none"
    /\ selected' = e.id
    /\ lastClick' = e.id
    /\ reported' = "None"
    /\ UNCHANGED <<ran, queue, live, store, hover>>

\* Pointer<Click> on a button: its On::<Pointer<Click>> listener, if it has
\* one, runs its system on the World; a button without a listener does nothing.
ClickButton(b) ==
    /\ Started
    /\ b \in live /\ b.button
    /\ pressed = b.id /\ hover = b.id
    /\ pressed' = "none"
    /\ lastClick' = b.id
    /\ IF b.on_click = "sys_on_to_dynamic_scene"
       THEN /\ store' = StoreAfterToDynamicScene(store, selected)
            /\ live' = WorldAfterToDynamicScene(live, selected)
            /\ reported' = ReportAfterToDynamicScene(store, selected)
       ELSE /\ store' = store
            /\ live' = live
            /\ reported' = "None"
    /\ UNCHANGED <<ran, queue, hover, selected>>

Next ==
    \/ sys_setup_ui
    \/ sys_setup_scene
    \/ ApplyDeferred
    \/ \E t \in {e.id : e \in UiEntities \cup SceneEntities} \cup {"none"} : PointerMove(t)
    \/ PointerDown
    \/ PointerUpElsewhere
    \/ \E e \in live : ClickMesh(e)
    \/ \E b \in live : ClickButton(b)

Spec == Init /\ [][Next]_vars

----------------------------------------------------------------------------
(* Properties *)

\* The "To Dynamic Scene" button is clicked in this step.
ToClicked == \E b \in live : b.id = "btn_to" /\ ClickButton(b)

\* The "From Dynamic Scene" button is clicked in this step.
FromClicked == \E b \in live : b.id = "btn_from" /\ ClickButton(b)

\* The entity of world w with the given id.
EntityOf(w, id) == CHOOSE e \in w : e.id = id

\* The ids of the entities of w in the sub-trees rooted at ids.
RECURSIVE SubtreeIds(_, _)
SubtreeIds(w, ids) ==
    LET more == {e.id : e \in {x \in w : x.parent \in ids}}
    IN  IF more \subseteq ids THEN ids ELSE SubtreeIds(w, ids \cup more)

\* C1: no two entities carry the same StableId: any two distinct live entities
\* that have an AppId have different AppIds.
C1_UniqueStableIds ==
    \A a \in live : \A b \in live :
        (a # b /\ a.appid # {} /\ b.appid # {}) => a.appid # b.appid

\* C3: a restore request (a click on "From Dynamic Scene") made while the store
\* is Empty fails with NothingStored.
C3_RestoreWhileEmptyFails ==
    [][(FromClicked /\ store.state = "Empty") => reported' = "NothingStored"]_vars

\* C5: a request that must fail (extract with no live picked entity or with a
\* non-Empty store, restore with an Empty store) leaves the store and the live
\* scene exactly as they were.
C5_FailedCallChangesNothing ==
    [][(\/ (ToClicked /\ (selected = "none" \/ store.state # "Empty"))
        \/ (FromClicked /\ store.state = "Empty"))
       => (store' = store /\ live' = live)]_vars

\* C5 witness: an extract request was made with nothing picked.
C5_Witness ==
    /\ lastClick = "btn_to"
    /\ selected = "none"
    /\ store.state = "Empty"
    /\ live = UiEntities \cup SceneEntities

\* C6: an extract request made with an Empty store and a live picked entity
\* moves the store to Stored with target = the picked entity's id and parent =
\* its parent's id (or none), and removes exactly the picked sub-tree.
C6_ExtractStoresAndDespawns ==
    [][(ToClicked /\ store.state = "Empty" /\ selected # "none")
       => LET root == EntityOf(live, selected)
              sub == SubtreeIds(live, {selected})
          IN  /\ store'.state = "Stored"
              /\ store'.target_appId = root.appid
              /\ store'.parent_appid =
                     (IF root.parent = "none" THEN {}
                      ELSE EntityOf(live, root.parent).appid)
              /\ live' = {e \in live : e.id \notin sub}]_vars

\* C9: once the UI is set up, each of the two buttons has a registered click
\* handler.
C9_BothButtonsHaveHandlers ==
    Started => \A b \in live : b.button => b.on_click # "none"

\* C10: the store starts Empty, is always in one of its declared states, and
\* is never ReadyToSave.
C10_NeverReadyToSave ==
    /\ store.state \in SceneStoreResource_variants
    /\ store.state # "ReadyToSave"
    /\ (ran = {} => store.state = "Empty")

\* C10 witness: the extract handler has run with an entity picked.
C10_Witness ==
    /\ lastClick = "btn_to"
    /\ selected # "none"
    /\ store.state = "Empty"

====
